---- MODULE Spec2Model ----
(***************************************************************************)
(* Model of the in-memory library catalog of src/library.py: the entities  *)
(* User, Book and BorrowRecord and the Library manager that owns them.     *)
(* Every public operation is a pure operator from a Library value (and the *)
(* arguments) to the Library value after the call and the outcome of the   *)
(* call; the actions apply those operators to the state.                   *)
(*                                                                         *)
(* Optional[T] is modelled as a sequence: <<>> is None, <<v>> is v.        *)
(* A date is the number of days since the first day of the run.            *)
(* The code raises ValueError everywhere; the outcome "err" names the      *)
(* raise statement by the error kind the documentation gives it.           *)
(*                                                                         *)
(* instance is _LibrarySingleton._instance: None until the first           *)
(* Library() call. users, books, records and next_record_id are the        *)
(* attributes of that one object; no call reads them before it exists.     *)
(***************************************************************************)
EXTENDS Integers, Sequences, FiniteSets, TLC

VARIABLES instance, users, books, records, next_record_id, today

vars == <<instance, users, books, records, next_record_id, today>>

\* ---------------------------------------------------------------- bounds
MaxCopies  == 2
MaxRecords == 2
MaxDay     == 1

\* ------------------------------------------------------ program constants
LOAN_DAYS == 14

\* ------------------------------------------------------------ input sets
UserIds    == {1, 2}
BookIds    == {100, 101}
Names      == {"Alice"}
Emails     == {"alice@example.com"}
Titles     == {"1984", "Emma"}
Authors    == {"Orwell", "Austen"}
Categories == {"Fiction", "Classic"}
CopyArgs   == -1 .. MaxCopies
RecordIds  == 1 .. (MaxRecords + 1)
Days       == 0 .. MaxDay
RefDays    == 0 .. (MaxDay + LOAN_DAYS + 1)

None == <<>>
Some(v) == <<v>>
Opt(S) == {None} \cup {Some(v) : v \in S}

\* --------------------------------------------------------------- entities
User(user_id, name, email) ==
    [user_id |-> user_id, name |-> name, email |-> email]

Book(book_id, title, author, category, total_copies, available_copies) ==
    [book_id |-> book_id, title |-> title, author |-> author,
     category |-> category, total_copies |-> total_copies,
     available_copies |-> available_copies]

\* BorrowRecord built with borrow_date and due_date in each other's place.
BorrowRecord_swapped(record_id, user_id, book_id, borrow_date, due_date) ==
    [record_id |-> record_id, user_id |-> user_id, book_id |-> book_id,
     borrow_date |-> due_date, due_date |-> borrow_date, return_date |-> None]

BorrowRecord(record_id, user_id, book_id, borrow_date, due_date) ==
    [record_id |-> record_id, user_id |-> user_id, book_id |-> book_id,
     borrow_date |-> borrow_date, due_date |-> due_date, return_date |-> None]

\* is_available with the comparison off by one.
is_available_at_zero(book) == book.available_copies >= 0

is_available(book) == book.available_copies > 0

\* borrow_copy that takes the copy off total_copies as well.
borrow_copy_both(book) ==
    IF book.available_copies <= 0
    THEN [book |-> book, err |-> "InvariantViolation"]
    ELSE [book |-> [book EXCEPT !.available_copies = @ - 1,
                                !.total_copies = @ - 1],
          err |-> "OK"]

\* Book.borrow_copy: the book after the call, or the raise.
borrow_copy(book) ==
    IF book.available_copies <= 0
    THEN [book |-> book, err |-> "InvariantViolation"]
    ELSE [book |-> [book EXCEPT !.available_copies = @ - 1], err |-> "OK"]

\* return_copy without its defensive check.
return_copy_unchecked(book) ==
    [book |-> [book EXCEPT !.available_copies = @ + 1], err |-> "OK"]

\* return_copy that passes its check and forgets the increment.
return_copy_forgotten(book) ==
    IF book.available_copies >= book.total_copies
    THEN [book |-> book, err |-> "InvariantViolation"]
    ELSE [book |-> book, err |-> "OK"]

\* Book.return_copy: the book after the call, or the raise.
return_copy(book) ==
    IF book.available_copies >= book.total_copies
    THEN [book |-> book, err |-> "InvariantViolation"]
    ELSE [book |-> [book EXCEPT !.available_copies = @ + 1], err |-> "OK"]

\* BorrowRecord.mark_returned(return_date=None), read on the day now.
mark_returned(record, return_date, now) ==
    [record EXCEPT !.return_date =
        IF return_date # None THEN return_date ELSE Some(now)]

\* is_overdue that counts the due date itself as overdue.
is_overdue_on_due_date(record, ref, now) ==
    IF record.return_date # None
    THEN FALSE
    ELSE (IF ref # None THEN ref[1] ELSE now) >= record.due_date

\* BorrowRecord.is_overdue(today=None), read on the day now.
is_overdue(record, ref, now) ==
    IF record.return_date # None
    THEN FALSE
    ELSE (IF ref # None THEN ref[1] ELSE now) > record.due_date

\* ---------------------------------------------------------------- Library
\* The Library object: the four attributes set by Library.__init__.
Library == [users |-> <<>>, books |-> <<>>, records |-> <<>>,
            next_record_id |-> 1]

Self == [users |-> users, books |-> books, records |-> records,
         next_record_id |-> next_record_id]

\* The outcome of a call: the object as the call leaves it, the error kind of
\* the raise statement reached ("OK" when the call returns) and the value
\* returned. An exception leaves the object as it is at the raise statement.
Raise(self, kind) == [self |-> self, err |-> kind, ret |-> None]
Return(self, ret) == [self |-> self, err |-> "OK", ret |-> Some(ret)]

\* Library() that runs __init__ on every call and hands out a new object.
singleton_call_fresh(inst, self) ==
    [instance |-> Some("Library"), self |-> Library]

\* _LibrarySingleton.__call__: Library(). The first call makes the object and
\* keeps it in _instance; every call returns the object kept there.
singleton_call(inst, self) ==
    IF inst = None
    THEN [instance |-> Some("Library"), self |-> Library]
    ELSE [instance |-> inst, self |-> self]

del(d, k) == [i \in (DOMAIN d) \ {k} |-> d[i]]

add_user(self, user_id, name, email) ==
    IF user_id \in DOMAIN self.users
    THEN Raise(self, "DuplicateKey")
    ELSE LET user == User(user_id, name, email)
         IN Return([self EXCEPT !.users = (user_id :> user) @@ @], user)

get_user(self, user_id) ==
    IF user_id \notin DOMAIN self.users
    THEN Raise(self, "NotFound")
    ELSE Return(self, self.users[user_id])

\* add_book without the check for an id already in the catalog.
add_book_overwrite(self, book_id, title, author, category, total_copies) ==
    IF total_copies <= 0
    THEN Raise(self, "InvalidArgument")
    ELSE LET book == Book(book_id, title, author, category,
                          total_copies, total_copies)
         IN Return([self EXCEPT !.books = (book_id :> book) @@ @], book)

add_book(self, book_id, title, author, category, total_copies) ==
    IF book_id \in DOMAIN self.books
    THEN Raise(self, "DuplicateKey")
    ELSE IF total_copies <= 0
    THEN Raise(self, "InvalidArgument")
    ELSE LET book == Book(book_id, title, author, category,
                          total_copies, total_copies)
         IN Return([self EXCEPT !.books = (book_id :> book) @@ @], book)

\* update_book that sets available_copies to the new total.
update_book_refill(self, book_id, title, author, category, total_copies) ==
    IF book_id \notin DOMAIN self.books
    THEN Raise(self, "NotFound")
    ELSE
      LET book == self.books[book_id]
          b1 == IF title # None THEN [book EXCEPT !.title = title[1]] ELSE book
          b2 == IF author # None THEN [b1 EXCEPT !.author = author[1]] ELSE b1
          b3 == IF category # None
                THEN [b2 EXCEPT !.category = category[1]] ELSE b2
      IN IF total_copies # None
         THEN IF total_copies[1] < (b3.total_copies - b3.available_copies)
              THEN Raise([self EXCEPT !.books[book_id] = b3],
                         "InvalidArgument")
              ELSE LET b4 == [b3 EXCEPT !.total_copies = total_copies[1],
                                        !.available_copies = total_copies[1]]
                   IN Return([self EXCEPT !.books[book_id] = b4], b4)
         ELSE Return([self EXCEPT !.books[book_id] = b3], b3)

update_book(self, book_id, title, author, category, total_copies) ==
    IF book_id \notin DOMAIN self.books
    THEN Raise(self, "NotFound")
    ELSE
      LET book == self.books[book_id]
          b1 == IF title # None THEN [book EXCEPT !.title = title[1]] ELSE book
          b2 == IF author # None THEN [b1 EXCEPT !.author = author[1]] ELSE b1
          b3 == IF category # None
                THEN [b2 EXCEPT !.category = category[1]] ELSE b2
      IN IF total_copies # None
         THEN IF total_copies[1] < (b3.total_copies - b3.available_copies)
              THEN Raise([self EXCEPT !.books[book_id] = b3],
                         "InvalidArgument")
              ELSE LET diff == total_copies[1] - b3.total_copies
                       b4 == [b3 EXCEPT !.total_copies = total_copies[1],
                                        !.available_copies = @ + diff]
                       b5 == IF b4.available_copies < 0
                             THEN [b4 EXCEPT !.available_copies = 0] ELSE b4
                   IN Return([self EXCEPT !.books[book_id] = b5], b5)
         ELSE Return([self EXCEPT !.books[book_id] = b3], b3)

\* delete_book that also drops the records of the deleted book.
delete_book_cascade(self, book_id) ==
    IF book_id \notin DOMAIN self.books
    THEN Raise(self, "NotFound")
    ELSE LET kept == {k \in DOMAIN self.records :
                         self.records[k].book_id # book_id}
         IN Return([self EXCEPT !.books = del(@, book_id),
                                !.records = [k \in kept |-> @[k]]], None)

delete_book(self, book_id) ==
    IF book_id \notin DOMAIN self.books
    THEN Raise(self, "NotFound")
    ELSE Return([self EXCEPT !.books = del(@, book_id)], None)

\* borrow_book that stores the record and forgets to move the counter on.
borrow_book_same_id(self, user_id, book_id, now) ==
    LET gu == get_user(self, user_id) IN
    IF gu.err # "OK"
    THEN Raise(self, gu.err)
    ELSE IF book_id \notin DOMAIN self.books
    THEN Raise(self, "NotFound")
    ELSE
      LET user == gu.ret[1]
          book == self.books[book_id]
      IN
      IF ~ is_available(book)
      THEN Raise(self, "Unavailable")
      ELSE
        LET bc == borrow_copy(book)
            record == BorrowRecord(self.next_record_id, user.user_id,
                                   book.book_id, now, now + LOAN_DAYS)
        IN IF bc.err # "OK"
           THEN Raise(self, bc.err)
           ELSE Return([self EXCEPT
                          !.books[book_id] = bc.book,
                          !.records = (self.next_record_id :> record) @@ @],
                       record)

\* borrow_book that sets the due date to the day of the loan.
borrow_book_due_today(self, user_id, book_id, now) ==
    LET gu == get_user(self, user_id) IN
    IF gu.err # "OK"
    THEN Raise(self, gu.err)
    ELSE IF book_id \notin DOMAIN self.books
    THEN Raise(self, "NotFound")
    ELSE
      LET user == gu.ret[1]
          book == self.books[book_id]
      IN
      IF ~ is_available(book)
      THEN Raise(self, "Unavailable")
      ELSE
        LET bc == borrow_copy(book)
            record == BorrowRecord(self.next_record_id, user.user_id,
                                   book.book_id, now, now)
        IN IF bc.err # "OK"
           THEN Raise(self, bc.err)
           ELSE Return([self EXCEPT
                          !.books[book_id] = bc.book,
                          !.records = (self.next_record_id :> record) @@ @,
                          !.next_record_id = @ + 1],
                       record)

borrow_book(self, user_id, book_id, now) ==
    LET gu == get_user(self, user_id) IN
    IF gu.err # "OK"
    THEN Raise(self, gu.err)
    ELSE IF book_id \notin DOMAIN self.books
    THEN Raise(self, "NotFound")
    ELSE
      LET user == gu.ret[1]
          book == self.books[book_id]
      IN
      IF ~ is_available(book)
      THEN Raise(self, "Unavailable")
      ELSE
        LET bc == borrow_copy(book) IN
        IF bc.err # "OK"
        THEN Raise(self, bc.err)
        ELSE
          LET due_date == now + LOAN_DAYS
              record == BorrowRecord(self.next_record_id, user.user_id,
                                     book.book_id, now, due_date)
          IN Return([self EXCEPT
                       !.books[book_id] = bc.book,
                       !.records = (self.next_record_id :> record) @@ @,
                       !.next_record_id = @ + 1],
                    record)

\* return_book that looks the book up before it looks at return_date.
return_book_book_first(self, record_id, now) ==
    IF record_id \notin DOMAIN self.records
    THEN Raise(self, "NotFound")
    ELSE
      LET record == self.records[record_id] IN
      IF record.book_id \notin DOMAIN self.books
      THEN Raise(self, "NotFound")
      ELSE IF record.return_date # None
      THEN Raise(self, "AlreadyReturned")
      ELSE
        LET rc == return_copy(self.books[record.book_id]) IN
        IF rc.err # "OK"
        THEN Raise(self, rc.err)
        ELSE LET closed == mark_returned(record, None, now)
             IN Return([self EXCEPT !.books[record.book_id] = rc.book,
                                    !.records[record_id] = closed],
                       closed)

\* return_book without the check that the record is still open.
return_book_again(self, record_id, now) ==
    IF record_id \notin DOMAIN self.records
    THEN Raise(self, "NotFound")
    ELSE
      LET record == self.records[record_id] IN
      IF record.book_id \notin DOMAIN self.books
      THEN Raise(self, "NotFound")
      ELSE
        LET rc == return_copy(self.books[record.book_id]) IN
        IF rc.err # "OK"
        THEN Raise(self, rc.err)
        ELSE LET closed == mark_returned(record, None, now)
             IN Return([self EXCEPT !.books[record.book_id] = rc.book,
                                    !.records[record_id] = closed],
                       closed)

return_book(self, record_id, now) ==
    IF record_id \notin DOMAIN self.records
    THEN Raise(self, "NotFound")
    ELSE
      LET record == self.records[record_id] IN
      IF record.return_date # None
      THEN Raise(self, "AlreadyReturned")
      ELSE IF record.book_id \notin DOMAIN self.books
      THEN Raise(self, "NotFound")
      ELSE
        LET rc == return_copy(self.books[record.book_id]) IN
        IF rc.err # "OK"
        THEN Raise(self, rc.err)
        ELSE LET closed == mark_returned(record, None, now)
             IN Return([self EXCEPT !.books[record.book_id] = rc.book,
                                    !.records[record_id] = closed],
                       closed)

\* list_user_borrowed_books without the test for an open record.
list_user_borrowed_books_all(self, user_id) ==
    LET gu == get_user(self, user_id) IN
    IF gu.err # "OK"
    THEN Raise(self, gu.err)
    ELSE Return(self, SelectSeq(self.records,
                                LAMBDA r : r.user_id = user_id))

\* self._records.values() lists the records in the order they were stored,
\* which is the order of their ids: records is that list.
list_user_borrowed_books(self, user_id) ==
    LET gu == get_user(self, user_id) IN
    IF gu.err # "OK"
    THEN Raise(self, gu.err)
    ELSE Return(self, SelectSeq(self.records,
                                LAMBDA r : r.user_id = user_id
                                           /\ r.return_date = None))

list_overdue_records(self, ref, now) ==
    Return(self, SelectSeq(self.records, LAMBDA r : is_overdue(r, ref, now)))

\* ---------------------------------------------------------------- actions
Init ==
    /\ instance = None
    /\ users = Library.users
    /\ books = Library.books
    /\ records = Library.records
    /\ next_record_id = Library.next_record_id
    /\ today = 0

\* The state after a call is the object as the call left it, whether the call
\* returned or raised.
Call(r) ==
    /\ instance # None
    /\ users' = r.self.users
    /\ books' = r.self.books
    /\ records' = r.self.records
    /\ next_record_id' = r.self.next_record_id
    /\ UNCHANGED <<instance, today>>

\* A client asks for the Library: Library().
Construct ==
    LET r == singleton_call(instance, Self)
    IN /\ instance' = r.instance
       /\ users' = r.self.users
       /\ books' = r.self.books
       /\ records' = r.self.records
       /\ next_record_id' = r.self.next_record_id
       /\ UNCHANGED today

AddUser(user_id, name, email) ==
    Call(add_user(Self, user_id, name, email))

AddBook(book_id, title, author, category, total_copies) ==
    Call(add_book(Self, book_id, title, author, category, total_copies))

UpdateBook(book_id, title, author, category, total_copies) ==
    Call(update_book(Self, book_id, title, author, category, total_copies))

DeleteBook(book_id) ==
    Call(delete_book(Self, book_id))

\* The model stops lending once MaxRecords records exist; a call that raises
\* is always possible.
BorrowBook(user_id, book_id) ==
    LET r == borrow_book(Self, user_id, book_id, today)
    IN /\ r.err = "OK" => next_record_id <= MaxRecords
       /\ Call(r)

ReturnBook(record_id) ==
    Call(return_book(Self, record_id, today))

ListUserBorrowedBooks(user_id) ==
    Call(list_user_borrowed_books(Self, user_id))

ListOverdueRecords(ref) ==
    Call(list_overdue_records(Self, ref, today))

\* date.today() moves on between calls.
Tick ==
    /\ today < MaxDay
    /\ today' = today + 1
    /\ UNCHANGED <<instance, users, books, records, next_record_id>>

\* The calls a client can make with ids from U and B and strings from T, A, C.
Calls(U, B, T, A, C) ==
    \/ Construct
    \/ \E u \in U, n \in Names, e \in Emails : AddUser(u, n, e)
    \/ \E b \in B, t \in T, a \in A, c \in C, n \in CopyArgs :
          AddBook(b, t, a, c, n)
    \/ \E b \in B, t \in Opt(T), a \in Opt(A), c \in Opt(C),
          n \in Opt(CopyArgs) : UpdateBook(b, t, a, c, n)
    \/ \E b \in B : DeleteBook(b)
    \/ \E u \in U, b \in B : BorrowBook(u, b)
    \/ \E r \in RecordIds : ReturnBook(r)
    \/ \E u \in U : ListUserBorrowedBooks(u)
    \/ \E ref \in Opt(RefDays) : ListOverdueRecords(ref)

\* Two users and two books on one day, every book with the same strings.
Next == Calls(UserIds, BookIds, {"1984"}, {"Orwell"}, {"Fiction"})

Spec == Init /\ [][Next]_vars

\* One user and one book on one day, with every string the inputs offer.
NextCatalog == Calls({1}, {100}, Titles, Authors, Categories)

SpecCatalog == Init /\ [][NextCatalog]_vars

\* Two users and one book over several days.
NextClock == Calls(UserIds, {100}, {"1984"}, {"Orwell"}, {"Fiction"}) \/ Tick

SpecClock == Init /\ [][NextClock]_vars

\* ----------------------------------------------------------------- claims
Open(k)   == records[k].return_date = None
Closed(k) == records[k].return_date # None

\* The open records that name book b.
OpenOf(b) == {k \in DOMAIN records : Open(k) /\ records[k].book_id = b}

\* C1: every book in the catalog has 0 <= available_copies <= total_copies,
\* after any sequence of calls, deleting a book and adding one again under
\* the same id included.
C1_CopiesInRange ==
    \A b \in DOMAIN books :
        /\ 0 <= books[b].available_copies
        /\ books[b].available_copies <= books[b].total_copies

\* A book added again under the id of a deleted one: more open records name
\* it than it has copies out, and a return has taken it back to full.
C1_Witness ==
    \E b \in DOMAIN books :
        /\ books[b].available_copies = books[b].total_copies
        /\ OpenOf(b) # {}
        /\ \E k \in DOMAIN records : Closed(k) /\ records[k].book_id = b

\* C2: update_book with total_copies below the borrowed count raises
\* InvalidArgument and leaves the book as it was, whichever of title, author
\* and category the call supplies.
C2_RejectedUpdateLeavesBook ==
    \A b \in DOMAIN books, t \in Opt(Titles), a \in Opt(Authors),
       c \in Opt(Categories), n \in CopyArgs :
        n < books[b].total_copies - books[b].available_copies =>
            LET r == update_book(Self, b, t, a, c, Some(n))
            IN r.err = "InvalidArgument" /\ r.self.books[b] = books[b]

\* C3: no call of borrow_book or return_book reaches the defensive raise of
\* Book.borrow_copy or Book.return_copy, and return_book on an open record
\* whose book id is in the catalog returns.
C3_NoInvariantViolation ==
    /\ \A u \in UserIds, b \in BookIds :
           borrow_book(Self, u, b, today).err # "InvariantViolation"
    /\ \A k \in DOMAIN records :
           LET r == return_book(Self, k, today)
           IN /\ r.err # "InvariantViolation"
              /\ (Open(k) /\ records[k].book_id \in DOMAIN books)
                     => r.err = "OK"

\* C4: return_book on a closed record raises AlreadyReturned on any day and
\* changes nothing: no available_copies moves and the return_date stays.
C4_SecondReturnRejected ==
    \A k \in DOMAIN records :
        Closed(k) =>
            \A d \in Days :
                LET r == return_book(Self, k, d)
                IN r.err = "AlreadyReturned" /\ r.self = Self

\* A closed record whose book is in the catalog with a copy still out, so
\* that a second return would have a copy to take back.
C4_Witness ==
    \E k \in DOMAIN records :
        /\ Closed(k)
        /\ records[k].book_id \in DOMAIN books
        /\ books[records[k].book_id].available_copies
               < books[records[k].book_id].total_copies

\* The number of calls borrow_book(u, b) that return before the first one
\* that raises, and the error kind of that one.
RECURSIVE BorrowsInARow(_, _, _, _)
BorrowsInARow(self, u, b, now) ==
    LET r == borrow_book(self, u, b, now)
    IN IF r.err = "OK" THEN 1 + BorrowsInARow(r.self, u, b, now) ELSE 0

RECURSIVE FirstRefusal(_, _, _, _)
FirstRefusal(self, u, b, now) ==
    LET r == borrow_book(self, u, b, now)
    IN IF r.err = "OK" THEN FirstRefusal(r.self, u, b, now) ELSE r

\* C5: borrow_book for a registered user and a book with no copy available
\* raises Unavailable and leaves books, records and the counter as they were;
\* a book with a copies available (a book just added with n copies has n)
\* lends exactly that many times in a row and then raises Unavailable.
C5_UnavailableAtZero ==
    /\ \A u \in DOMAIN users, b \in DOMAIN books :
        /\ books[b].available_copies = 0 =>
               LET r == borrow_book(Self, u, b, today)
               IN r.err = "Unavailable" /\ r.self = Self
        /\ BorrowsInARow(Self, u, b, today) = books[b].available_copies
        /\ FirstRefusal(Self, u, b, today).err = "Unavailable"
    /\ \A u \in DOMAIN users, b \in BookIds \ DOMAIN books, n \in 1 .. MaxCopies :
           LET added == add_book(Self, b, "1984", "Orwell", "Fiction", n).self
               last  == FirstRefusal(added, u, b, today)
           IN /\ BorrowsInARow(added, u, b, today) = n
              /\ last.err = "Unavailable"
              /\ last.self.books[b].available_copies = 0
              /\ DOMAIN last.self.records = DOMAIN records \cup
                     (next_record_id .. (next_record_id + n - 1))

\* Every copy of a book is out on open records, a user is registered: the
\* next borrow_book is the one that raises.
C5_Witness ==
    \E b \in DOMAIN books :
        /\ users # <<>>
        /\ books[b].total_copies = MaxCopies
        /\ books[b].available_copies = 0
        /\ Cardinality(OpenOf(b)) = MaxCopies

\* C6: the counter starts at 1 and moves by exactly 1 on a borrow_book that
\* returns and on no other call; the k-th record made has id k, so no id is
\* given twice and ids grow strictly.
C6_RecordIdCounter ==
    /\ next_record_id >= 1
    /\ DOMAIN records = 1 .. (next_record_id - 1)
    /\ \A k \in DOMAIN records : records[k].record_id = k
    /\ \A u \in UserIds, b \in BookIds :
        LET r == borrow_book(Self, u, b, today)
        IN IF r.err = "OK"
           THEN /\ r.self.next_record_id = next_record_id + 1
                /\ r.ret[1].record_id = next_record_id
                /\ \A k \in DOMAIN records : k < r.ret[1].record_id
           ELSE r.self.next_record_id = next_record_id
    /\ \A k \in RecordIds :
        return_book(Self, k, today).self.next_record_id = next_record_id
    /\ \A b \in BookIds :
        /\ delete_book(Self, b).self.next_record_id = next_record_id
        /\ \A n \in CopyArgs :
            /\ add_book(Self, b, "1984", "Orwell", "Fiction", n)
                   .self.next_record_id = next_record_id
            /\ update_book(Self, b, None, None, None, Some(n))
                   .self.next_record_id = next_record_id
    /\ \A u \in UserIds :
        add_user(Self, u, "Alice", "alice@example.com")
            .self.next_record_id = next_record_id

\* Records were made, one was closed, and the book of one was deleted.
C6_Witness ==
    /\ next_record_id = MaxRecords + 1
    /\ \E k \in DOMAIN records : Closed(k)
    /\ \E k \in DOMAIN records : records[k].book_id \notin DOMAIN books

\* C7: where borrow_book(u, b) returns, return_book on the record it made,
\* called next on any day, returns and leaves book b with the
\* available_copies and total_copies it had before the loan.
C7_BorrowReturnRoundTrip ==
    \A u \in UserIds, b \in BookIds :
        LET r == borrow_book(Self, u, b, today)
        IN r.err = "OK" =>
            \A d \in Days :
                LET q == return_book(r.self, r.ret[1].record_id, d)
                IN /\ q.err = "OK"
                   /\ q.self.books[b].available_copies
                          = books[b].available_copies
                   /\ q.self.books[b].total_copies = books[b].total_copies
                   /\ q.self.books = books

\* The newest record is closed and its book, still in the catalog, is full
\* again while an older record of that book is open.
C7_Witness ==
    \E k \in DOMAIN records :
        /\ k = next_record_id - 1
        /\ Closed(k)
        /\ records[k].book_id \in DOMAIN books
        /\ OpenOf(records[k].book_id) # {}
        /\ books[records[k].book_id].available_copies
               = books[records[k].book_id].total_copies

\* C8: a borrow_book that returns takes exactly 1 from the book's
\* available_copies and stores and returns exactly one new record, open, with
\* the user and book of the call, borrow_date the day of the call and
\* due_date 14 days later; every stored record has that due date.
C8_BorrowEffect ==
    /\ \A k \in DOMAIN records :
           records[k].due_date = records[k].borrow_date + 14
    /\ \A u \in UserIds, b \in BookIds, now \in Days :
        LET r == borrow_book(Self, u, b, now)
        IN r.err = "OK" =>
            /\ r.self.books[b].available_copies
                   = books[b].available_copies - 1
            /\ next_record_id \notin DOMAIN records
            /\ DOMAIN r.self.records = DOMAIN records \cup {next_record_id}
            /\ \A k \in DOMAIN records : r.self.records[k] = records[k]
            /\ r.self.records[next_record_id] = r.ret[1]
            /\ r.ret[1] = [record_id |-> next_record_id, user_id |-> u,
                           book_id |-> b, borrow_date |-> now,
                           due_date |-> now + 14, return_date |-> None]

\* Two open records made for two users and two books.
C8_Witness ==
    \E j, k \in DOMAIN records :
        /\ Open(j) /\ Open(k)
        /\ records[j].user_id # records[k].user_id
        /\ records[j].book_id # records[k].book_id
        /\ records[j].book_id \in DOMAIN books
        /\ records[k].book_id \in DOMAIN books

\* One step of a record's life: no record leaves the collection; user_id,
\* book_id, borrow_date and due_date stay; a return_date that is set stays;
\* a record is closed only by a return_book on it that returns; a record
\* appears only by a borrow_book that returns, and appears open.
RecordLifecycleStep ==
    /\ DOMAIN records \subseteq DOMAIN records'
    /\ \A k \in DOMAIN records :
        /\ records'[k].record_id = records[k].record_id
        /\ records'[k].user_id = records[k].user_id
        /\ records'[k].book_id = records[k].book_id
        /\ records'[k].borrow_date = records[k].borrow_date
        /\ records'[k].due_date = records[k].due_date
        /\ Closed(k) => records'[k].return_date = records[k].return_date
        /\ (Open(k) /\ records'[k].return_date # None) =>
               /\ return_book(Self, k, today).err = "OK"
               /\ ReturnBook(k)
    /\ \A k \in (DOMAIN records') \ (DOMAIN records) :
        /\ records'[k].return_date = None
        /\ \E u \in UserIds, b \in BookIds :
               /\ borrow_book(Self, u, b, today).err = "OK"
               /\ BorrowBook(u, b)

\* C9: a record is made open by borrow_book, is closed at most once and only
\* by a return_book that returns, keeps its return_date once set and its
\* other fields always, and is never removed, not by delete_book either.
C9_RecordLifecycle == [][RecordLifecycleStep]_vars

\* A record closed on an earlier day whose book has since been deleted,
\* beside an open record.
C9_Witness ==
    \E j, k \in DOMAIN records :
        /\ Closed(k)
        /\ records[k].return_date[1] < today
        /\ records[k].book_id \notin DOMAIN books
        /\ Open(j)

\* The Library values one public call can leave, from the Library value self.
AfterCall(self) ==
    {add_user(self, u, n, e).self : u \in UserIds, n \in Names, e \in Emails}
    \cup {add_book(self, b, "1984", "Orwell", "Fiction", n).self :
              b \in BookIds, n \in CopyArgs}
    \cup {update_book(self, b, None, None, None, n).self :
              b \in BookIds, n \in Opt(CopyArgs)}
    \cup {delete_book(self, b).self : b \in BookIds}
    \cup {borrow_book(self, u, b, today).self : u \in UserIds, b \in BookIds}
    \cup {return_book(self, k, today).self : k \in DOMAIN self.records}

\* The Library values that at most n public calls can leave.
RECURSIVE AfterCalls(_, _)
AfterCalls(S, n) ==
    IF n = 0 THEN S
    ELSE AfterCalls(S \cup UNION {AfterCall(self) : self \in S}, n - 1)

\* C10: an open record whose book was deleted cannot be closed: return_book
\* on it raises NotFound and leaves it open, and it is still open after any
\* further calls (here: any three).
C10_OrphanNeverClosed ==
    \A k \in DOMAIN records :
        (Open(k) /\ records[k].book_id \notin DOMAIN books) =>
            /\ return_book(Self, k, today).err = "NotFound"
            /\ return_book(Self, k, today).self = Self
            /\ \A self \in AfterCalls({Self}, 3) :
                   self.records[k].return_date = None

\* C11: every book in the catalog has total_copies > 0.
C11_TotalPositive ==
    \A b \in DOMAIN books : books[b].total_copies > 0

\* C12: add_user with a registered id and add_book with an id in the catalog
\* raise DuplicateKey, add_book with total_copies <= 0 (and a new id; the id
\* is checked first) raises InvalidArgument, and each of these leaves the
\* object, the entity under that id included, as it was; an add_book that
\* returns stores and returns a book with available_copies = total_copies.
C12_AddRejections ==
    /\ \A u \in DOMAIN users, n \in Names \cup {"Bob"},
          e \in Emails \cup {"bob@example.com"} :
           LET r == add_user(Self, u, n, e)
           IN r.err = "DuplicateKey" /\ r.self = Self
    /\ \A b \in BookIds, t \in Titles, a \in Authors, c \in Categories,
          n \in CopyArgs :
           LET r == add_book(Self, b, t, a, c, n)
           IN IF b \in DOMAIN books
              THEN r.err = "DuplicateKey" /\ r.self = Self
              ELSE IF n <= 0
              THEN r.err = "InvalidArgument" /\ r.self = Self
              ELSE /\ r.err = "OK"
                   /\ DOMAIN r.self.books = DOMAIN books \cup {b}
                   /\ r.self.books[b].total_copies = n
                   /\ r.self.books[b].available_copies = n
                   /\ r.ret[1] = r.self.books[b]

\* A registered user, and a book with a copy out: an add_book that went
\* through under its id would bring the copy back.
C12_Witness ==
    /\ users # <<>>
    /\ \E b \in DOMAIN books :
           /\ books[b].title = "Emma"
           /\ books[b].available_copies < books[b].total_copies

\* C13: with a clock that never goes back, every closed record has
\* return_date >= borrow_date.
C13_ReturnNotBeforeBorrow ==
    \A k \in DOMAIN records :
        Closed(k) => records[k].return_date[1] >= records[k].borrow_date

\* A record closed on a later day than the day it was made, beside a record
\* made and closed on one day.
C13_Witness ==
    \E j, k \in DOMAIN records :
        /\ Closed(j) /\ Closed(k)
        /\ records[j].return_date[1] > records[j].borrow_date
        /\ records[k].return_date[1] = records[k].borrow_date

\* The elements of a list.
Range(list) == {list[i] : i \in 1 .. Len(list)}

\* The stored records that are open and due before day d.
OpenAndDueBefore(d) ==
    {records[k] : k \in {j \in DOMAIN records :
                            Open(j) /\ d > records[j].due_date}}

\* C14: list_overdue_records(ref) returns exactly the stored records that
\* are open with ref > due_date (the day of the call when ref is None), each
\* once: an open record is listed for borrow_date + 15, not for
\* borrow_date + 1 and not for its due_date; a closed record never is.
C14_OverdueListing ==
    /\ \A ref \in RefDays :
        LET r == list_overdue_records(Self, Some(ref), today)
        IN /\ r.err = "OK" /\ r.self = Self
           /\ Range(r.ret[1]) = OpenAndDueBefore(ref)
           /\ Len(r.ret[1]) = Cardinality(OpenAndDueBefore(ref))
    /\ \A now \in RefDays :
        LET r == list_overdue_records(Self, None, now)
        IN /\ r.err = "OK" /\ r.self = Self
           /\ Range(r.ret[1]) = OpenAndDueBefore(now)
    /\ \A k \in DOMAIN records :
        LET Listed(ref) ==
                records[k] \in
                    Range(list_overdue_records(Self, Some(ref), today).ret[1])
        IN /\ Open(k) => /\ Listed(records[k].borrow_date + 15)
                         /\ ~ Listed(records[k].borrow_date + 1)
                         /\ ~ Listed(records[k].due_date)
           /\ Closed(k) => \A ref \in RefDays : ~ Listed(ref)

\* An open and a closed record, made on different days.
C14_Witness ==
    \E j, k \in DOMAIN records :
        /\ Open(j) /\ Closed(k)
        /\ records[j].borrow_date # records[k].borrow_date

\* C17: list_user_borrowed_books(u) raises NotFound for an unregistered
\* user; otherwise it returns exactly the stored open records with
\* user_id = u, each once, those of deleted books included; it changes
\* nothing.
C17_UserBorrowedListing ==
    \A u \in UserIds :
        LET r == list_user_borrowed_books(Self, u)
            mine == {k \in DOMAIN records :
                        Open(k) /\ records[k].user_id = u}
        IN /\ r.self = Self
           /\ IF u \notin DOMAIN users
              THEN r.err = "NotFound"
              ELSE /\ r.err = "OK"
                   /\ Range(r.ret[1]) = {records[k] : k \in mine}
                   /\ Len(r.ret[1]) = Cardinality(mine)

\* A user with a closed record and an open record whose book was deleted.
C17_Witness ==
    \E j, k \in DOMAIN records :
        /\ records[j].user_id = records[k].user_id
        /\ Closed(j)
        /\ Open(k)
        /\ records[k].book_id \notin DOMAIN books

\* C15: once the Library exists, Library() returns that object and runs no
\* __init__: _instance never changes again, and a construction request
\* leaves users, books, records and the counter as the calls so far made
\* them.
C15_SingleInstance ==
    /\ [](instance # None =>
             LET r == singleton_call(instance, Self)
             IN r.instance = instance /\ r.self = Self)
    /\ [][/\ instance # None => instance' = instance
          /\ (Construct /\ instance # None) =>
                 UNCHANGED <<users, books, records, next_record_id>>]_vars

\* The Library exists and holds a user, a book and a record.
C15_Witness ==
    /\ instance # None
    /\ users # <<>>
    /\ books # <<>>
    /\ records # <<>>
    /\ next_record_id > 1

\* C16: an update_book that returns and supplies total_copies stores that
\* total and available_copies + (new total - old total), so the borrowed
\* count stays and the clamp to 0 changes nothing; a field not supplied
\* keeps its value, a string supplied is stored; nothing else changes.
C16_UpdateEffect ==
    \A b \in DOMAIN books, t \in Opt(Titles), a \in Opt(Authors),
       c \in Opt(Categories), n \in Opt(CopyArgs) :
        LET r == update_book(Self, b, t, a, c, n)
            old == books[b]
        IN r.err = "OK" =>
            LET new == r.self.books[b]
            IN /\ IF n # None
                  THEN /\ new.total_copies = n[1]
                       /\ new.available_copies
                              = old.available_copies
                                    + (n[1] - old.total_copies)
                       /\ new.available_copies >= 0
                       /\ new.total_copies - new.available_copies
                              = old.total_copies - old.available_copies
                  ELSE /\ new.total_copies = old.total_copies
                       /\ new.available_copies = old.available_copies
               /\ new.title = IF t # None THEN t[1] ELSE old.title
               /\ new.author = IF a # None THEN a[1] ELSE old.author
               /\ new.category = IF c # None THEN c[1] ELSE old.category
               /\ new.book_id = old.book_id
               /\ r.ret[1] = new
               /\ r.self = [Self EXCEPT !.books[b] = new]

\* A book with one copy out of two, after an earlier loan was returned: its
\* total can go up, or down to the borrowed count.
C16_Witness ==
    \E b \in DOMAIN books :
        /\ books[b].total_copies = 2
        /\ books[b].available_copies = 1
        /\ books[b].title = "Emma"
        /\ Cardinality(OpenOf(b)) = 1
        /\ \E k \in DOMAIN records : Closed(k)

\* C18: return_book checks that the record exists, then that it is open,
\* then that its book exists, then Book.return_copy, and sets return_date
\* only after all four: a closed record of a deleted book gives
\* AlreadyReturned, and a return_book that raises changes nothing.
C18_ReturnCheckOrder ==
    \A k \in RecordIds, d \in Days :
        LET r == return_book(Self, k, d)
        IN /\ r.err =
                IF k \notin DOMAIN records THEN "NotFound"
                ELSE IF Closed(k) THEN "AlreadyReturned"
                ELSE IF records[k].book_id \notin DOMAIN books THEN "NotFound"
                ELSE IF books[records[k].book_id].available_copies
                            >= books[records[k].book_id].total_copies
                     THEN "InvariantViolation"
                ELSE "OK"
           /\ r.err # "OK" => r.self = Self
           /\ r.err = "OK" => r.self.records[k].return_date = Some(d)

\* A closed record whose book was deleted, beside an open record whose book
\* is in the catalog with every copy in.
C18_Witness ==
    \E j, k \in DOMAIN records :
        /\ Closed(j)
        /\ records[j].book_id \notin DOMAIN books
        /\ Open(k)
        /\ records[k].book_id \in DOMAIN books
        /\ books[records[k].book_id].available_copies
               = books[records[k].book_id].total_copies

\* C19: for every book in the catalog, total_copies - available_copies is
\* the number of open records that name the book.
C19_CopiesMatchOpenRecords ==
    \A b \in DOMAIN books :
        books[b].total_copies - books[b].available_copies
            = Cardinality(OpenOf(b))

\* C20: a borrow_book that returns changes the available_copies of its book,
\* adds one record and moves the counter; a return_book that returns changes
\* the available_copies of the record's book and the record's return_date;
\* users, other books, the other fields of the book and the other records
\* stay. The stored ids are 1 .. counter - 1, each record under its own
\* record_id and with a registered user.
C20_TransactionFrame ==
    /\ DOMAIN records = 1 .. (next_record_id - 1)
    /\ \A k \in DOMAIN records :
        /\ records[k].record_id = k
        /\ records[k].user_id \in DOMAIN users
    /\ \A u \in UserIds, b \in BookIds :
        LET r == borrow_book(Self, u, b, today)
        IN r.err = "OK" =>
            /\ r.self.users = users
            /\ r.self.books =
                   [books EXCEPT ![b].available_copies = @ - 1]
            /\ DOMAIN r.self.records = DOMAIN records \cup {next_record_id}
            /\ \A k \in DOMAIN records : r.self.records[k] = records[k]
            /\ r.self.next_record_id = next_record_id + 1
    /\ \A k \in DOMAIN records :
        LET r == return_book(Self, k, today)
        IN r.err = "OK" =>
            /\ r.self.users = users
            /\ r.self.books =
                   [books EXCEPT ![records[k].book_id].available_copies = @ + 1]
            /\ r.self.records =
                   [records EXCEPT ![k].return_date = Some(today)]
            /\ r.self.next_record_id = next_record_id

\* Two users, two books in the catalog, a closed record on one book and an
\* open record of the other user on the other.
C20_Witness ==
    \E j, k \in DOMAIN records :
        /\ DOMAIN books = BookIds
        /\ Closed(j) /\ Open(k)
        /\ records[j].book_id # records[k].book_id
        /\ records[j].user_id # records[k].user_id

TypeOK ==
    /\ instance \in Opt({"Library"})
    /\ DOMAIN users \subseteq UserIds
    /\ DOMAIN books \subseteq BookIds
    /\ next_record_id \in 1 .. (MaxRecords + 1)
    /\ today \in Days

====
